---- MODULE Spec2Model ----
(***************************************************************************)
(* A model of magnus' embedding layer:                                     *)
(*   - src/src/embed.rs : the one-shot runtime lifecycle guard             *)
(*                        (init / init_options / Cleanup::drop);           *)
(*   - src/src/class.rs : the class construction protocol and the          *)
(*                        allocator-override operations of trait Class;    *)
(*   - src/src/r_string.rs : the string overlay RString and FString.       *)
(* The functions of the embedded runtime that the code calls through FFI   *)
(* (ruby_setup, rb_get_alloc_func, rb_class_new_instance, ...) are modelled *)
(* by what the runtime does at the call site that is named in the map.     *)
(***************************************************************************)
EXTENDS Integers, Sequences, FiniteSets, TLC

(***************************************************************************)
(* Bounds                                                                  *)
(***************************************************************************)
\* number of threads of the host process
NumThreads == 3
\* calls of embed::init one thread makes
MaxCalls == 2

\* threads calling the operations of trait Class
NumCallers == 2
\* classes created with Class::new
MaxUserClasses == 1

\* characters of a Rust text handed to RString::new
MaxTextLen == 2
\* bytes a string object is grown to by append and cat
MaxLen == 4
\* largest capacity asked of buf_new and with_capacity
MaxCap == 3
\* bytes that fit the inline buffer of a string object (scaled down)
RSTRING_EMBED_LEN_MAX == 2

Threads == 1..NumThreads

VARIABLES
    \* ---- embed.rs ----
    INIT,            \* static INIT: AtomicBool of init_options
    pc,              \* per thread: where it stands inside init_options
    calls,           \* per thread: calls of init made so far
    outcome,         \* per thread: how its latest call of init ended
    panicStrategy,   \* the build's panic strategy: "unwind" or "abort"
    aborted,         \* the process was aborted by a panic (panic = abort)
    casLog,          \* result of every compare_exchange on INIT, in order
    setupCalls,      \* number of executions of ruby_setup
    setupResult,     \* "none", "ok" (returned 0) or "fail" (non-zero)
    cleanupCalls,    \* number of executions of ruby_cleanup
    guardsReturned,  \* number of Cleanup values returned by init
    guardsDropped,   \* number of returned Cleanup values dropped by the caller
    \* ---- class.rs ----
    classes,         \* the class objects that exist
    superOf,         \* RCLASS_SUPER of every class ("nil": none)
    allocSlot,       \* the allocator-function slot of every class
    TClass,          \* <T as TypedData>::class() of every host type T
    once,            \* undef_default_alloc_func::INIT (std::sync::Once)
    RB_CLASS_ALLOCATE_INSTANCE,  \* the static mut of undef_default_alloc_func
    cpc,             \* per thread: position inside undef_default_alloc_func
    initRuns,        \* executions of the call_once closure
    captured,        \* what the first execution of the closure stored
    usedVals,        \* every cached value a caller has compared against
    last,            \* the operation completed last, with what it did
    \* ---- r_string.rs ----
    str,             \* the string object behind the RString the host holds
    origin,          \* history: the text RString::new made that object from,
                     \* for as long as the object has not been modified
    slast            \* the string operation completed last

embedVars == <<INIT, pc, calls, outcome, panicStrategy, aborted, casLog,
               setupCalls, setupResult, cleanupCalls, guardsReturned,
               guardsDropped>>

classVars == <<classes, superOf, allocSlot, TClass, once,
               RB_CLASS_ALLOCATE_INSTANCE, cpc, initRuns, captured,
               usedVals, last>>

strVars == <<str, origin, slast>>

vars == <<embedVars, classVars, strVars>>

(***************************************************************************)
(* embed.rs                                                                *)
(***************************************************************************)

\* AtomicBool::compare_exchange(expected, new): the result (Ok/Err with the
\* previous value) and the value the flag holds afterwards.
compare_exchange_clearing(cur, expected, new) ==
    IF cur = expected
    THEN [ok |-> TRUE,  prev |-> cur, now |-> new]
    ELSE [ok |-> FALSE, prev |-> cur, now |-> expected]

compare_exchange_always_wins(cur, expected, new) ==
    [ok |-> TRUE, prev |-> expected, now |-> new]

compare_exchange_noflip(cur, expected, new) ==
    [ok |-> cur = expected, prev |-> cur, now |-> cur]

compare_exchange(cur, expected, new) ==
    IF cur = expected
    THEN [ok |-> TRUE,  prev |-> cur, now |-> new]
    ELSE [ok |-> FALSE, prev |-> cur, now |-> cur]

\* `if ruby_setup() != 0 { panic!(..) }`
setup_failed_ignored(r) == FALSE

setup_failed(r) == r # 0

\* impl Drop for Cleanup: one ruby_cleanup(0) per dropped value.
Cleanup_drop_nothing(n) == n

Cleanup_drop(n) == n + 1

\* A panic inside init_options of thread t. `live` tells whether the local
\* `cleanup` exists in the frame. Unwinding drops it; an aborting build ends
\* the process on the spot and runs no destructor.
Panic(t, msg, live) ==
    /\ outcome' = [outcome EXCEPT ![t] = msg]
    /\ pc' = [pc EXCEPT ![t] = "idle"]
    /\ IF panicStrategy = "abort"
       THEN /\ aborted' = TRUE
            /\ cleanupCalls' = cleanupCalls
       ELSE /\ aborted' = aborted
            /\ cleanupCalls' = IF live THEN Cleanup_drop(cleanupCalls)
                                       ELSE cleanupCalls

\* init() -> init_options(&["-e", ""]): the compare_exchange on INIT and the
\* match on its result.
InitCas(t) ==
    /\ ~aborted
    /\ pc[t] = "idle"
    /\ calls[t] < MaxCalls
    /\ calls' = [calls EXCEPT ![t] = @ + 1]
    /\ LET r == compare_exchange(INIT, FALSE, TRUE) IN
       /\ INIT' = r.now
       /\ casLog' = Append(casLog, IF r.ok THEN "won" ELSE "already")
       /\ IF r.ok /\ r.prev = FALSE
          THEN /\ pc' = [pc EXCEPT ![t] = "setup"]
               /\ outcome' = [outcome EXCEPT ![t] = "running"]
               /\ UNCHANGED <<aborted, cleanupCalls>>
          ELSE IF ~r.ok /\ r.prev = TRUE
          THEN Panic(t, "Ruby already initialized", FALSE)
          ELSE Panic(t, "unexpected INIT state", FALSE)
    /\ UNCHANGED <<panicStrategy, setupCalls, setupResult, guardsReturned,
                   guardsDropped>>
    /\ UNCHANGED <<classVars, strVars>>

\* ruby_setup() and the check of its result; `let cleanup = Cleanup();`
RubySetup(t) ==
    /\ ~aborted
    /\ pc[t] = "setup"
    /\ \E r \in {0, 1} :
         /\ setupCalls' = setupCalls + 1
         /\ IF setup_failed(r)
            THEN /\ setupResult' = "fail"
                 /\ Panic(t, "Failed to setup Ruby", FALSE)
            ELSE /\ setupResult' = IF r = 0 THEN "ok" ELSE "fail"
                 /\ pc' = [pc EXCEPT ![t] = "options"]
                 /\ UNCHANGED <<outcome, aborted, cleanupCalls>>
    /\ UNCHANGED <<INIT, calls, panicStrategy, casLog, guardsReturned,
                   guardsDropped>>
    /\ UNCHANGED <<classVars, strVars>>

\* ruby_options(..) and ruby_executable_node(node, &status)
RubyOptions(t) ==
    /\ ~aborted
    /\ pc[t] = "options"
    /\ \E executable \in {0, 1} :
         IF executable = 0
         THEN Panic(t, "Ruby init code not executable", TRUE)
         ELSE /\ pc' = [pc EXCEPT ![t] = "exec"]
              /\ UNCHANGED <<outcome, aborted, cleanupCalls>>
    /\ UNCHANGED <<INIT, calls, panicStrategy, casLog, setupCalls, setupResult,
                   guardsReturned, guardsDropped>>
    /\ UNCHANGED <<classVars, strVars>>

\* ruby_exec_node(node), then `cleanup` is returned to the caller
RubyExec(t) ==
    /\ ~aborted
    /\ pc[t] = "exec"
    /\ \E status \in {0, 1} :
         IF status # 0
         THEN /\ Panic(t, "Ruby init code failed", TRUE)
              /\ UNCHANGED guardsReturned
         ELSE /\ pc' = [pc EXCEPT ![t] = "holding"]
              /\ outcome' = [outcome EXCEPT ![t] = "guard"]
              /\ guardsReturned' = guardsReturned + 1
              /\ UNCHANGED <<aborted, cleanupCalls>>
    /\ UNCHANGED <<INIT, calls, panicStrategy, casLog, setupCalls, setupResult,
                   guardsDropped>>
    /\ UNCHANGED <<classVars, strVars>>

\* The caller lets the returned Cleanup go out of scope.
DropGuard(t) ==
    /\ ~aborted
    /\ pc[t] = "holding"
    /\ cleanupCalls' = Cleanup_drop(cleanupCalls)
    /\ guardsDropped' = guardsDropped + 1
    /\ pc' = [pc EXCEPT ![t] = "idle"]
    /\ UNCHANGED <<INIT, calls, outcome, panicStrategy, aborted, casLog,
                   setupCalls, setupResult, guardsReturned>>
    /\ UNCHANGED <<classVars, strVars>>

InitEmbed ==
    /\ INIT = FALSE
    /\ pc = [t \in Threads |-> "idle"]
    /\ calls = [t \in Threads |-> 0]
    /\ outcome = [t \in Threads |-> "none"]
    /\ panicStrategy \in {"unwind", "abort"}
    /\ aborted = FALSE
    /\ casLog = <<>>
    /\ setupCalls = 0
    /\ setupResult = "none"
    /\ cleanupCalls = 0
    /\ guardsReturned = 0
    /\ guardsDropped = 0

NextEmbed ==
    \E t \in Threads :
        \/ InitCas(t)
        \/ RubySetup(t)
        \/ RubyOptions(t)
        \/ RubyExec(t)
        \/ DropGuard(t)

(***************************************************************************)
(* class.rs: the runtime's class records                                   *)
(***************************************************************************)

\* Host types T: Default + TypedData that define_alloc_func is used with.
HostTypes == {"T"}

\* Names of the classes Class::new creates, in creation order.
ClassName == <<"K1", "K2", "K3", "K4">>

UserClasses == {ClassName[i] : i \in 1..MaxUserClasses}

\* class_basic_object() and class_object(): the root and its child.
BuiltinClasses == {"BasicObject", "Object"}

AllClasses == BuiltinClasses \cup UserClasses

\* Values of rb_alloc_func_t. "NULL" is None (an empty slot), "UNDEF" the
\* runtime's marker of an undefined allocator, DefaultAlloc the runtime's
\* generic allocator rb_class_allocate_instance, and allocate::<T> is named
\* by T.
DefaultAlloc == "rb_class_allocate_instance"

AllocFuncs == {DefaultAlloc} \cup HostTypes

NoObj == [class |-> "nil", wrapped |-> "none", initialized |-> FALSE]

\* rb_get_alloc_func(klass): the first allocator on the superclass chain;
\* None when the chain ends or reaches an undefined allocator.
RECURSIVE rb_get_alloc_func(_, _, _)
rb_get_alloc_func(slots, sup, klass) ==
    IF klass = "nil" THEN "NULL"
    ELSE IF slots[klass] = "UNDEF" THEN "NULL"
    ELSE IF slots[klass] # "NULL" THEN slots[klass]
    ELSE rb_get_alloc_func(slots, sup, sup[klass])

\* rb_define_alloc_func(klass, func)
rb_define_alloc_func_in_every_class(slots, klass, func) ==
    [k \in DOMAIN slots |-> func]

rb_define_alloc_func(slots, klass, func) == [slots EXCEPT ![klass] = func]

\* rb_undef_alloc_func(klass)
rb_undef_alloc_func(slots, klass) == rb_define_alloc_func(slots, klass, "UNDEF")

\* extern "C" fn allocate<T>(class): obj_wrap_as(T::default(), class), an
\* object of the class the runtime passes in that holds T::default() and on
\* which initialize has not run.
allocate_as_own_class(T, class) ==
    [class |-> TClass[T], wrapped |-> T, initialized |-> FALSE]

allocate(T, class) ==
    [class |-> class, wrapped |-> T, initialized |-> FALSE]

\* rb_obj_alloc(klass): raises "allocator undefined for <klass>" when klass has
\* no allocator, otherwise calls it with klass. The generic allocator makes a
\* plain object of klass; allocate::<T> wraps T::default() as klass
\* (obj_wrap_as(T::default(), class)). `trace` lists the calls made on the
\* object, `allocated` tells whether an object came into being.
rb_obj_alloc(slots, sup, klass, allocRaises) ==
    LET f == rb_get_alloc_func(slots, sup, klass) IN
    IF f = "NULL"
    THEN [raised |-> TRUE, msg |-> "allocator undefined", trace |-> <<>>,
          allocated |-> FALSE, obj |-> NoObj]
    ELSE IF allocRaises
    THEN [raised |-> TRUE, msg |-> "raised in allocate", trace |-> <<f>>,
          allocated |-> FALSE, obj |-> NoObj]
    ELSE [raised |-> FALSE, msg |-> "", trace |-> <<f>>,
          allocated |-> TRUE,
          obj |-> IF f = DefaultAlloc
                  THEN [class |-> klass, wrapped |-> "none",
                        initialized |-> FALSE]
                  ELSE allocate(f, klass)]

\* rb_class_new_instance(argc, argv, klass): rb_obj_alloc(klass), then the
\* object's initialize with the arguments.
rb_class_new_instance(slots, sup, klass, allocRaises, initRaises) ==
    LET a == rb_obj_alloc(slots, sup, klass, allocRaises) IN
    IF a.raised THEN a
    ELSE IF initRaises
    THEN [raised |-> TRUE, msg |-> "raised in initialize",
          trace |-> Append(a.trace, "initialize"), allocated |-> TRUE,
          obj |-> NoObj]
    ELSE [raised |-> FALSE, msg |-> "",
          trace |-> Append(a.trace, "initialize"), allocated |-> TRUE,
          obj |-> [a.obj EXCEPT !.initialized = TRUE]]

\* rb_class_superclass(klass): nil for BasicObject, a TypeError for any other
\* class without a superclass, else the superclass.
rb_class_superclass(sup, klass) ==
    IF sup[klass] = "nil"
    THEN IF klass = "BasicObject"
         THEN [raised |-> FALSE, msg |-> "", value |-> "nil"]
         ELSE [raised |-> TRUE, msg |-> "uninitialized class", value |-> "nil"]
    ELSE [raised |-> FALSE, msg |-> "", value |-> sup[klass]]

\* protect(|| ..): a raise becomes Err, a return Ok.
protect(r) == IF r.raised THEN "err" ELSE "ok"

(***************************************************************************)
(* r_string.rs: texts, bytes and the runtime's string objects              *)
(***************************************************************************)

\* The chars of the texts the host passes in: 'a' (U+0061) and U+00E9.
Chars == {97, 233}

\* Rust &str values: sequences of chars.
Texts == UNION {[1..n -> Chars] : n \in 0..MaxTextLen}

\* Byte buffers passed to cat and held by the strings of the embedded
\* language: empty, ASCII, a lone continuation byte (not UTF-8), and the two
\* bytes of U+00E9.
Bufs == {<<>>, <<97>>, <<169>>, <<195, 169>>}

\* char::encode_utf8, for chars below U+0800
char_encode_latin1(c) == <<c>>

char_encode_utf8(c) ==
    IF c < 128 THEN <<c>>
    ELSE <<192 + (c \div 64), 128 + (c % 64)>>

\* s.as_ptr() and s.len(): the bytes of a &str are the UTF-8 encodings of its
\* chars, one after the other.
RECURSIVE str_as_bytes(_)
str_as_bytes(s) ==
    IF s = <<>> THEN <<>>
    ELSE char_encode_utf8(Head(s)) \o str_as_bytes(Tail(s))

\* str::from_utf8: validates the bytes and gives the text they encode. Of the
\* lead bytes only those of one- and two-byte sequences occur in the byte
\* sets of this model; every other byte in lead position is an error.
RECURSIVE str_from_utf8(_)
str_from_utf8(bytes) ==
    IF bytes = <<>> THEN [ok |-> TRUE, text |-> <<>>]
    ELSE LET b == Head(bytes) IN
         IF b < 128
         THEN LET r == str_from_utf8(Tail(bytes)) IN
              [ok |-> r.ok, text |-> IF r.ok THEN <<b>> \o r.text ELSE <<>>]
         ELSE IF /\ b >= 194
                 /\ b <= 223
                 /\ Len(bytes) >= 2
                 /\ bytes[2] >= 128
                 /\ bytes[2] <= 191
         THEN LET r == str_from_utf8(SubSeq(bytes, 3, Len(bytes))) IN
              [ok |-> r.ok,
               text |-> IF r.ok
                        THEN <<(b - 192) * 64 + (bytes[2] - 128)>> \o r.text
                        ELSE <<>>]
         ELSE [ok |-> FALSE, text |-> <<>>]

\* Encoding indexes
rb_utf8_encindex == "UTF-8"

rb_usascii_encindex == "US-ASCII"

rb_ascii8bit_encindex == "ASCII-8BIT"

Encodings == {rb_utf8_encindex, rb_usascii_encindex, rb_ascii8bit_encindex}

\* ruby_sys::RString. `noembed` is the flag RSTRING_NOEMBED and `embed_len`
\* the bits of RSTRING_EMBED_LEN_MASK in the header flags, `ary` the inline
\* buffer and heap_ptr/heap_len the heap variant of the union, `enc` the
\* encoding index, `frozen` and `fstr` the flags FL_FREEZE and RSTRING_FSTR;
\* `bare` tells that the object is of class String and has no instance
\* variables. NoStr stands for "no string object".
NoStr == [noembed |-> FALSE, embed_len |-> 0, ary |-> <<>>,
          heap_ptr |-> <<>>, heap_len |-> 0, enc |-> "none",
          frozen |-> FALSE, fstr |-> FALSE, bare |-> FALSE]

\* A new string object of the runtime with the given bytes and encoding:
\* embedded when the bytes fit the inline buffer, heap-backed otherwise.
rb_enc_str_new(bytes, enc) ==
    IF Len(bytes) <= RSTRING_EMBED_LEN_MAX
    THEN [noembed |-> FALSE, embed_len |-> Len(bytes), ary |-> bytes,
          heap_ptr |-> <<>>, heap_len |-> 0, enc |-> enc,
          frozen |-> FALSE, fstr |-> FALSE, bare |-> TRUE]
    ELSE [noembed |-> TRUE, embed_len |-> 0, ary |-> <<>>,
          heap_ptr |-> bytes, heap_len |-> Len(bytes), enc |-> enc,
          frozen |-> FALSE, fstr |-> FALSE, bare |-> TRUE]

\* rb_utf8_str_new(ptr, len)
rb_utf8_str_new(bytes) == rb_enc_str_new(bytes, rb_utf8_encindex)

\* rb_str_buf_new(capa): an empty binary string; heap-backed when the
\* capacity does not fit the inline buffer.
rb_str_buf_new(capa) ==
    [noembed |-> capa > RSTRING_EMBED_LEN_MAX, embed_len |-> 0, ary |-> <<>>,
     heap_ptr |-> <<>>, heap_len |-> 0, enc |-> rb_ascii8bit_encindex,
     frozen |-> FALSE, fstr |-> FALSE, bare |-> TRUE]

\* rb_enc_associate_index(obj, idx)
rb_enc_associate_index(s, idx) == [s EXCEPT !.enc = idx]

\* rb_enc_get_index(obj)
rb_enc_get_index(s) == s.enc

\* The strings of the embedded language that reach the host: any bytes of
\* Bufs under any encoding, frozen or not; an interned string is frozen and
\* bare.
RubyStrings ==
    {[rb_enc_str_new(b, e) EXCEPT !.frozen = fl[1], !.fstr = fl[2],
                                  !.bare = fl[3]] :
        b \in Bufs, e \in Encodings,
        fl \in {f \in BOOLEAN \X BOOLEAN \X BOOLEAN :
                    f[2] => (f[1] /\ f[3])}}

\* The strings passed as `other` to append.
Others == {rb_enc_str_new(b, e) : b \in Bufs, e \in Encodings}

(***************************************************************************)
(* r_string.rs: RString                                                    *)
(***************************************************************************)

\* Handles (Value): special constants, the classes, a module, a plain
\* object, and "str", the string object at hand.
Handles == {"Qnil", "Qtrue", "Qfalse", "fixnum", "symbol", "Kernel", "main",
            "str"} \cup AllClasses

\* Value::rb_type: the runtime's type tag of the value behind a handle
rb_type(val) ==
    CASE val = "Qnil" -> "RUBY_T_NIL"
      [] val = "Qtrue" -> "RUBY_T_TRUE"
      [] val = "Qfalse" -> "RUBY_T_FALSE"
      [] val = "fixnum" -> "RUBY_T_FIXNUM"
      [] val = "symbol" -> "RUBY_T_SYMBOL"
      [] val = "Kernel" -> "RUBY_T_MODULE"
      [] val = "main" -> "RUBY_T_OBJECT"
      [] val = "str" -> "RUBY_T_STRING"
      [] val \in AllClasses -> "RUBY_T_CLASS"

\* RClass::from_value(val)
RClass_from_value(val) ==
    IF rb_type(val) = "RUBY_T_CLASS"
    THEN [some |-> TRUE, wraps |-> val]
    ELSE [some |-> FALSE, wraps |-> "none"]

\* RString::from_value(val)
RString_from_value_unchecked(val) == [some |-> TRUE, wraps |-> val]

RString_from_value(val) ==
    IF rb_type(val) = "RUBY_T_STRING"
    THEN [some |-> TRUE, wraps |-> val]
    ELSE [some |-> FALSE, wraps |-> "none"]

\* RString::new(s)
RString_new(s) == rb_utf8_str_new(str_as_bytes(s))

\* RString::buf_new(n)
buf_new(n) == rb_str_buf_new(n)

\* RString::with_capacity(n)
with_capacity_untagged(n) == buf_new(n)

with_capacity(n) ==
    LET s == buf_new(n) IN
    rb_enc_associate_index(s, rb_utf8_encindex)

\* RString::as_slice_unconstrained(self)
as_slice_inline_only(s) == SubSeq(s.ary, 1, s.embed_len)

as_slice_unconstrained(s) ==
    IF s.noembed
    THEN SubSeq(s.heap_ptr, 1, s.heap_len)
    ELSE SubSeq(s.ary, 1, s.embed_len)

\* RString::is_utf8_compatible_encoding(self)
is_utf8_compatible_encoding(s) ==
    LET encindex == rb_enc_get_index(s) IN
    encindex = rb_utf8_encindex \/ encindex = rb_usascii_encindex

\* RString::as_str_unconstrained(self), which as_str calls
as_str_unchecked_tag(s) ==
    LET r == str_from_utf8(as_slice_unconstrained(s)) IN
    IF r.ok
    THEN [result |-> "ok", err |-> "", msg |-> "", text |-> r.text]
    ELSE [result |-> "err", err |-> "EncodingError",
          msg |-> "invalid utf-8", text |-> <<>>]

as_str_unconstrained(s) ==
    IF ~is_utf8_compatible_encoding(s)
    THEN [result |-> "err", err |-> "EncodingError",
          msg |-> "expected utf-8", text |-> <<>>]
    ELSE LET r == str_from_utf8(as_slice_unconstrained(s)) IN
         IF r.ok
         THEN [result |-> "ok", err |-> "", msg |-> "", text |-> r.text]
         ELSE [result |-> "err", err |-> "EncodingError",
               msg |-> "invalid utf-8", text |-> <<>>]

\* The bytes of the string, as the runtime reads them (RSTRING_PTR/LEN).
RSTRING_GETMEM(s) == IF s.noembed THEN s.heap_ptr ELSE s.ary

\* is_ascii_string(str): all bytes are below 0x80 (coderange 7bit)
is_ascii_string(s) ==
    \A i \in 1..Len(RSTRING_GETMEM(s)) : RSTRING_GETMEM(s)[i] < 128

\* rb_str_conv_enc(str, NULL, rb_utf8_encoding()): the string itself when it
\* is UTF-8 already, a copy tagged UTF-8 when it is ASCII only, and otherwise
\* the string itself again: no transcoder leads from binary to UTF-8, and
\* one that meets an invalid byte gives up; neither raises.
rb_str_conv_enc(s, to) ==
    IF rb_enc_get_index(s) = to THEN s
    ELSE IF is_ascii_string(s)
    THEN [s EXCEPT !.enc = to, !.frozen = FALSE, !.fstr = FALSE]
    ELSE s

\* RString::encode_utf8(self): the Ok value (the call does not raise here)
encode_utf8(s) == rb_str_conv_enc(s, rb_utf8_encindex)

\* RString::to_string(self)
to_string(s) ==
    LET utf8 == IF is_utf8_compatible_encoding(s) THEN s
                ELSE encode_utf8(s)
        r == str_from_utf8(as_slice_unconstrained(utf8)) IN
    IF r.ok
    THEN [result |-> "ok", err |-> "", msg |-> "", text |-> r.text]
    ELSE [result |-> "err", err |-> "EncodingError",
          msg |-> "invalid utf-8", text |-> <<>>]

\* RString::is_interned(self)
is_interned(s) == s.fstr

\* RString::as_interned_str(self): Some(FString(self)) or None
as_interned_str(s) ==
    IF is_interned(s)
    THEN [some |-> TRUE, wraps |-> s]
    ELSE [some |-> FALSE, wraps |-> NoStr]

\* rb_str_to_interned_str(str), which is rb_fstring(str). `found` tells
\* whether the runtime's table of interned strings holds an equal string.
\* A string with the flag is returned as it is. A string that is not bare is
\* frozen and returned itself, without the flag. A bare string gives the
\* equal string of the table when there is one; otherwise a frozen string is
\* entered into the table itself and a string that is not frozen is copied,
\* the frozen copy is entered and returned, and the string stays as it was.
\* `self` is the string after the call, `ret` the string returned.
rb_str_to_interned_str_moving(s, found) ==
    [self |-> [s EXCEPT !.fstr = FALSE],
     ret |-> [rb_enc_str_new(RSTRING_GETMEM(s), s.enc)
                  EXCEPT !.frozen = TRUE, !.fstr = TRUE],
     same |-> FALSE]

rb_str_to_interned_str(s, found) ==
    IF s.fstr THEN [self |-> s, ret |-> s, same |-> TRUE]
    ELSE IF ~s.bare
    THEN [self |-> [s EXCEPT !.frozen = TRUE],
          ret |-> [s EXCEPT !.frozen = TRUE], same |-> TRUE]
    ELSE IF found \/ ~s.frozen
    THEN [self |-> s,
          ret |-> [rb_enc_str_new(RSTRING_GETMEM(s), s.enc)
                       EXCEPT !.frozen = TRUE, !.fstr = TRUE],
          same |-> FALSE]
    ELSE [self |-> [s EXCEPT !.fstr = TRUE],
          ret |-> [s EXCEPT !.fstr = TRUE], same |-> TRUE]

\* RString::to_interned_str(self): FString(RString(..)) of what the runtime
\* returns
to_interned_str(s, found) == rb_str_to_interned_str(s, found)

\* str_buf_cat of the runtime: the bytes are added where the string keeps
\* them; an embedded string that outgrows the inline buffer becomes
\* heap-backed.
str_buf_cat(s, buf) ==
    LET bytes == RSTRING_GETMEM(s) \o buf IN
    IF s.noembed
    THEN [s EXCEPT !.heap_ptr = bytes, !.heap_len = Len(bytes)]
    ELSE IF Len(bytes) <= RSTRING_EMBED_LEN_MAX
    THEN [s EXCEPT !.ary = bytes, !.embed_len = Len(bytes)]
    ELSE [s EXCEPT !.noembed = TRUE, !.ary = <<>>, !.embed_len = 0,
                   !.heap_ptr = bytes, !.heap_len = Len(bytes)]

\* rb_str_cat(str, ptr, len): returns at once when len is 0; otherwise raises
\* FrozenError on a frozen string and adds the bytes to any other.
rb_str_cat_unguarded(s, buf) ==
    [raised |-> FALSE, exc |-> "", str |-> str_buf_cat(s, buf)]

rb_str_cat(s, buf) ==
    IF Len(buf) = 0 THEN [raised |-> FALSE, exc |-> "", str |-> s]
    ELSE IF s.frozen THEN [raised |-> TRUE, exc |-> "FrozenError", str |-> s]
    ELSE [raised |-> FALSE, exc |-> "", str |-> str_buf_cat(s, buf)]

\* The test of rb_str_buf_append on the two encodings (all encodings of the
\* model are ASCII compatible): they differ and both strings hold a byte
\* that is not ASCII.
enc_incompatible_never(s, other) == FALSE

enc_incompatible(s, other) ==
    /\ rb_enc_get_index(s) # rb_enc_get_index(other)
    /\ ~is_ascii_string(s)
    /\ ~is_ascii_string(other)

\* rb_str_buf_append(str, str2): raises Encoding::CompatibilityError when the
\* encodings are incompatible, then FrozenError when str is frozen; otherwise
\* adds the bytes of str2. An ASCII-only str that receives bytes that are not
\* ASCII takes the encoding of str2.
rb_str_buf_append(s, other) ==
    IF enc_incompatible(s, other)
    THEN [raised |-> TRUE, exc |-> "Encoding::CompatibilityError", str |-> s]
    ELSE IF s.frozen
    THEN [raised |-> TRUE, exc |-> "FrozenError", str |-> s]
    ELSE [raised |-> FALSE, exc |-> "",
          str |-> [str_buf_cat(s, RSTRING_GETMEM(other)) EXCEPT
                       !.enc = IF is_ascii_string(s) /\ ~is_ascii_string(other)
                               THEN rb_enc_get_index(other)
                               ELSE rb_enc_get_index(s)]]

\* RString::append(self, other): protect(|| rb_str_buf_append(..))?; Ok(())
append(s, other) ==
    LET r == rb_str_buf_append(s, other) IN
    [result |-> protect(r), err |-> r.exc, str |-> r.str]

\* RString::cat(self, buf): rb_str_cat(..), not under protect. A raise leaves
\* cat by unwinding the host's frames and is not a return value.
cat(s, buf) ==
    LET r == rb_str_cat(s, buf) IN
    [result |-> IF r.raised THEN "raise" ELSE "ok", err |-> r.exc,
     str |-> r.str]

\* No history yet, and no string operation yet.
NoOrigin == [made |-> FALSE, text |-> <<>>]

NoStrOp == [op |-> "none", result |-> "-", err |-> "", text |-> <<>>,
            h |-> "none", wraps |-> "none", n |-> 0, arg |-> <<>>,
            argEnc |-> "none", pre |-> NoStr, ret |-> NoStr]

(***************************************************************************)
(* class.rs: trait Class                                                   *)
(***************************************************************************)

\* Threads that call into class.rs
Callers == 1..NumCallers

registryVars == <<classes, superOf, TClass>>

onceVars == <<once, RB_CLASS_ALLOCATE_INSTANCE, initRuns, captured, usedVals>>

\* The runtime is set up and not torn down.
Alive ==
    /\ ~aborted
    /\ INIT
    /\ setupResult = "ok"
    /\ cleanupCalls = 0

\* What a completed operation leaves in `last`: its arguments and result, the
\* allocator `self` had before the call and the classes whose allocator slot
\* the call changed.
Completed(op, self, T, result, msg, trace, allocated, retClass, retObj) ==
    last' = [op |-> op, self |-> self, T |-> T, result |-> result,
             msg |-> msg, trace |-> trace, allocated |-> allocated,
             retClass |-> retClass, retObj |-> retObj,
             preAlloc |-> rb_get_alloc_func(allocSlot, superOf, self),
             changed |-> {k \in AllClasses : allocSlot'[k] # allocSlot[k]}]

\* <RClass as Class>::new(superclass)
ClassNew(t, superclass) ==
    /\ Alive
    /\ cpc[t] = "idle"
    /\ superclass \in classes
    /\ Cardinality(classes \cap UserClasses) < MaxUserClasses
    /\ LET k == ClassName[Cardinality(classes \cap UserClasses) + 1] IN
       /\ classes' = classes \cup {k}
       /\ superOf' = [superOf EXCEPT ![k] = superclass]
       /\ allocSlot' = [allocSlot EXCEPT ![k] = "NULL"]
       /\ Completed("new", superclass, "-", "ok", "", <<>>, FALSE, k, NoObj)
    /\ UNCHANGED <<TClass, onceVars, cpc>>
    /\ UNCHANGED <<embedVars, strVars>>

\* The assertion of define_alloc_func: class.equal(self).unwrap_or(false)
alloc_class_unchecked(class, self) == TRUE

alloc_class_matches(class, self) == class = self

\* Class::define_alloc_func::<T>(self). A failed assertion panics, which ends
\* the process in an aborting build.
DefineAllocFunc(t, self, T) ==
    /\ Alive
    /\ cpc[t] = "idle"
    /\ self \in classes
    /\ LET class == TClass[T] IN
       IF alloc_class_matches(class, self)
       THEN /\ allocSlot' = rb_define_alloc_func(allocSlot, self, T)
            /\ aborted' = aborted
            /\ Completed("define_alloc_func", self, T, "ok", "", <<>>, FALSE,
                         "nil", NoObj)
       ELSE /\ allocSlot' = allocSlot
            /\ aborted' = (panicStrategy = "abort")
            /\ Completed("define_alloc_func", self, T, "panic",
                         "does not match", <<>>, FALSE, "nil", NoObj)
    /\ UNCHANGED <<registryVars, onceVars, cpc>>
    /\ UNCHANGED <<INIT, pc, calls, outcome, panicStrategy, casLog, setupCalls,
                   setupResult, cleanupCalls, guardsReturned, guardsDropped>>
    /\ UNCHANGED strVars

\* Class::undef_alloc_func(self)
UndefAllocFunc(t, self) ==
    /\ Alive
    /\ cpc[t] = "idle"
    /\ self \in classes
    /\ allocSlot' = rb_undef_alloc_func(allocSlot, self)
    /\ Completed("undef_alloc_func", self, "-", "ok", "", <<>>, FALSE, "nil",
                 NoObj)
    /\ UNCHANGED <<registryVars, onceVars, cpc>>
    /\ UNCHANGED <<embedVars, strVars>>

\* Once::call_once: the closure runs for the caller that finds the Once
\* incomplete; a caller that finds it running waits for its completion.
call_once_always(state) == TRUE

call_once_runs(state) == state = "incomplete"

\* Class::undef_default_alloc_func(self), up to INIT.call_once
UndefDefaultCallOnce(t) ==
    /\ Alive
    /\ cpc[t] = "idle"
    /\ IF call_once_runs(once)
       THEN /\ once' = "running"
            /\ cpc' = [cpc EXCEPT ![t] = "in_init"]
       ELSE /\ once' = once
            /\ cpc' = [cpc EXCEPT ![t] = IF once = "complete" THEN "compare"
                                                               ELSE "waiting"]
    /\ UNCHANGED <<registryVars, allocSlot, RB_CLASS_ALLOCATE_INSTANCE,
                   initRuns, captured, usedVals, last>>
    /\ UNCHANGED <<embedVars, strVars>>

\* the closure: RB_CLASS_ALLOCATE_INSTANCE = rb_get_alloc_func(class_object())
UndefDefaultInit(t) ==
    /\ Alive
    /\ cpc[t] = "in_init"
    /\ LET v == rb_get_alloc_func(allocSlot, superOf, "Object") IN
       /\ RB_CLASS_ALLOCATE_INSTANCE' = v
       /\ captured' = IF initRuns = 0 THEN v ELSE captured
    /\ initRuns' = initRuns + 1
    /\ once' = "complete"
    /\ cpc' = [cpc EXCEPT ![t] = "compare"]
    /\ UNCHANGED <<registryVars, allocSlot, usedVals, last>>
    /\ UNCHANGED <<embedVars, strVars>>

\* a caller blocked in call_once resumes when the closure has completed
UndefDefaultWake(t) ==
    /\ Alive
    /\ cpc[t] = "waiting"
    /\ once = "complete"
    /\ cpc' = [cpc EXCEPT ![t] = "compare"]
    /\ UNCHANGED <<registryVars, allocSlot, onceVars, last>>
    /\ UNCHANGED <<embedVars, strVars>>

\* the read of the static and
\* `if rb_get_alloc_func(self) == rb_class_allocate_instance { rb_undef_alloc_func(self) }`
\* (`self` is not read before this point: the model draws it here)
UndefDefaultCompare(t, self) ==
    /\ Alive
    /\ cpc[t] = "compare"
    /\ self \in classes
    /\ LET rb_class_allocate_instance == RB_CLASS_ALLOCATE_INSTANCE IN
       /\ usedVals' = usedVals \cup {rb_class_allocate_instance}
       /\ allocSlot' =
            IF rb_get_alloc_func(allocSlot, superOf, self)
                   = rb_class_allocate_instance
            THEN rb_undef_alloc_func(allocSlot, self)
            ELSE allocSlot
    /\ cpc' = [cpc EXCEPT ![t] = "idle"]
    /\ Completed("undef_default_alloc_func", self, "-", "ok", "", <<>>, FALSE,
                 "nil", NoObj)
    /\ UNCHANGED <<registryVars, once, RB_CLASS_ALLOCATE_INSTANCE, initRuns,
                   captured>>
    /\ UNCHANGED <<embedVars, strVars>>

\* <RClass as Class>::new_instance(self, args):
\* protect(|| rb_class_new_instance(argc, argv, self))
RClass_new_instance_alloc_only(slots, sup, self, allocRaises, initRaises) ==
    rb_obj_alloc(slots, sup, self, allocRaises)

RClass_new_instance(slots, sup, self, allocRaises, initRaises) ==
    rb_class_new_instance(slots, sup, self, allocRaises, initRaises)

NewInstance(t, self) ==
    /\ Alive
    /\ cpc[t] = "idle"
    /\ self \in classes
    /\ \E allocRaises \in BOOLEAN, initRaises \in BOOLEAN :
         LET r == RClass_new_instance(allocSlot, superOf, self, allocRaises,
                                      initRaises) IN
         /\ allocSlot' = allocSlot
         /\ Completed("new_instance", self, "-", protect(r), r.msg, r.trace,
                      r.allocated, "nil", r.obj)
    /\ UNCHANGED <<registryVars, onceVars, cpc>>
    /\ UNCHANGED <<embedVars, strVars>>

\* <RClass as Class>::obj_alloc(self): protect(|| rb_obj_alloc(self))
RClass_obj_alloc_with_initialize(slots, sup, self, allocRaises) ==
    rb_class_new_instance(slots, sup, self, allocRaises, FALSE)

RClass_obj_alloc(slots, sup, self, allocRaises) ==
    rb_obj_alloc(slots, sup, self, allocRaises)

ObjAlloc(t, self) ==
    /\ Alive
    /\ cpc[t] = "idle"
    /\ self \in classes
    /\ \E allocRaises \in BOOLEAN :
         LET r == RClass_obj_alloc(allocSlot, superOf, self, allocRaises) IN
         /\ allocSlot' = allocSlot
         /\ Completed("obj_alloc", self, "-", protect(r), r.msg, r.trace,
                      r.allocated, "nil", r.obj)
    /\ UNCHANGED <<registryVars, onceVars, cpc>>
    /\ UNCHANGED <<embedVars, strVars>>

\* Class::superclass(self):
\* protect(|| RClass::from_rb_value_unchecked(rb_class_superclass(self)))
Class_superclass(sup, self) ==
    LET r == rb_class_superclass(sup, self) IN
    [result |-> protect(r), msg |-> r.msg, value |-> r.value]

Superclass(t, self) ==
    /\ Alive
    /\ cpc[t] = "idle"
    /\ self \in classes
    /\ LET r == Class_superclass(superOf, self) IN
       /\ allocSlot' = allocSlot
       /\ Completed("superclass", self, "-", r.result, r.msg, <<>>, FALSE,
                    r.value, NoObj)
    /\ UNCHANGED <<registryVars, onceVars, cpc>>
    /\ UNCHANGED <<embedVars, strVars>>

NoOp == [op |-> "none", self |-> "nil", T |-> "-", result |-> "-",
         msg |-> "", trace |-> <<>>, allocated |-> FALSE, retClass |-> "nil",
         retObj |-> NoObj, preAlloc |-> "NULL", changed |-> {}]

\* Before the runtime is set up there are no class objects.
NoRuntime ==
    /\ classes = {}
    /\ superOf = [k \in AllClasses |-> "nil"]
    /\ allocSlot = [k \in AllClasses |-> "NULL"]
    /\ TClass = [T \in HostTypes |-> "Object"]
    /\ once = "incomplete"
    /\ RB_CLASS_ALLOCATE_INSTANCE = "NULL"
    /\ cpc = [t \in Callers |-> "idle"]
    /\ initRuns = 0
    /\ captured = "NULL"
    /\ usedVals = {}
    /\ last = NoOp
    /\ str = NoStr
    /\ origin = NoOrigin
    /\ slast = NoStrOp

\* The process after `let _cleanup = unsafe { magnus::embed::init() };` on
\* thread 1: the runtime has defined BasicObject, with the generic allocator,
\* and Object below it.
InitClass ==
    /\ INIT = TRUE
    /\ pc = [t \in Threads |-> IF t = 1 THEN "holding" ELSE "idle"]
    /\ calls = [t \in Threads |-> IF t = 1 THEN 1 ELSE 0]
    /\ outcome = [t \in Threads |-> IF t = 1 THEN "guard" ELSE "none"]
    /\ panicStrategy \in {"unwind", "abort"}
    /\ aborted = FALSE
    /\ casLog = <<"won">>
    /\ setupCalls = 1
    /\ setupResult = "ok"
    /\ cleanupCalls = 0
    /\ guardsReturned = 1
    /\ guardsDropped = 0
    /\ classes = BuiltinClasses
    /\ superOf = [k \in AllClasses |-> IF k = "Object" THEN "BasicObject"
                                                       ELSE "nil"]
    /\ allocSlot = [k \in AllClasses |-> IF k = "BasicObject" THEN DefaultAlloc
                                                              ELSE "NULL"]
    /\ TClass \in [HostTypes -> AllClasses]
    /\ once = "incomplete"
    /\ RB_CLASS_ALLOCATE_INSTANCE = "NULL"
    /\ cpc = [t \in Callers |-> "idle"]
    /\ initRuns = 0
    /\ captured = "NULL"
    /\ usedVals = {}
    /\ last = NoOp
    /\ str = NoStr
    /\ origin = NoOrigin
    /\ slast = NoStrOp

\* The operations of trait Class called one after the other from the thread
\* that set the runtime up.
NextClass ==
    \/ \E superclass \in AllClasses : ClassNew(1, superclass)
    \/ \E self \in AllClasses, T \in HostTypes : DefineAllocFunc(1, self, T)
    \/ \E self \in AllClasses : UndefAllocFunc(1, self)
    \/ UndefDefaultCallOnce(1)
    \/ UndefDefaultInit(1)
    \/ \E self \in AllClasses : UndefDefaultCompare(1, self)
    \/ \E self \in AllClasses : NewInstance(1, self)
    \/ \E self \in AllClasses : ObjAlloc(1, self)
    \/ \E self \in AllClasses : Superclass(1, self)

SpecClass == InitClass /\ [][NextClass]_vars

\* The allocator operations called from several threads at once.
NextOnce ==
    \E t \in Callers :
        \/ \E self \in AllClasses, T \in HostTypes : DefineAllocFunc(t, self, T)
        \/ \E self \in AllClasses : UndefAllocFunc(t, self)
        \/ UndefDefaultCallOnce(t)
        \/ UndefDefaultInit(t)
        \/ UndefDefaultWake(t)
        \/ \E self \in AllClasses : UndefDefaultCompare(t, self)

SpecOnce == InitClass /\ [][NextOnce]_vars

\* The process at its start.
InitProcess == InitEmbed /\ NoRuntime

SpecEmbed == InitProcess /\ [][NextEmbed]_vars

(***************************************************************************)
(* r_string.rs: the operations, on the one string the host holds           *)
(***************************************************************************)

\* What a completed string operation leaves in `slast`: its result, the
\* handle, capacity, bytes and encoding it was given, the string object as it
\* was before the call and the string object it returned.
StrDone(op, result, err, text, h, wraps, n, arg, argEnc, pre, ret) ==
    slast' = [op |-> op, result |-> result, err |-> err, text |-> text,
              h |-> h, wraps |-> wraps, n |-> n, arg |-> arg,
              argEnc |-> argEnc, pre |-> pre, ret |-> ret]

\* The handle names a value that exists.
Valid(h) ==
    /\ h \in Handles
    /\ (h = "str" => str # NoStr)
    /\ (h \in AllClasses => h \in classes)

\* RString::new(s)
New(s) ==
    /\ Alive
    /\ str = NoStr
    /\ str' = RString_new(s)
    /\ origin' = [made |-> TRUE, text |-> s]
    /\ StrDone("new", "ok", "", s, "str", "none", 0, <<>>, "none", NoStr,
               str')
    /\ UNCHANGED <<embedVars, classVars>>

\* RString::buf_new(n)
BufNew(n) ==
    /\ Alive
    /\ str = NoStr
    /\ str' = buf_new(n)
    /\ origin' = NoOrigin
    /\ StrDone("buf_new", "ok", "", <<>>, "str", "none", n, <<>>, "none",
               NoStr, str')
    /\ UNCHANGED <<embedVars, classVars>>

\* RString::with_capacity(n)
WithCapacity(n) ==
    /\ Alive
    /\ str = NoStr
    /\ str' = with_capacity(n)
    /\ origin' = NoOrigin
    /\ StrDone("with_capacity", "ok", "", <<>>, "str", "none", n, <<>>,
               "none", NoStr, str')
    /\ UNCHANGED <<embedVars, classVars>>

\* <RString as TryConvert>::try_convert(val) on a value of the embedded
\* language: a string o is taken over as it is; for the other values of the
\* model rb_str_to_str raises TypeError.
TryConvert(h, o) ==
    /\ Alive
    /\ str = NoStr
    /\ h \in Handles
    /\ (h \in AllClasses => h \in classes)
    /\ IF h = "str" THEN o \in RubyStrings ELSE o = NoStr
    /\ LET i == RString_from_value(h) IN
       IF i.some
       THEN /\ str' = o
            /\ StrDone("try_convert", "ok", "", <<>>, h, i.wraps, 0, <<>>,
                       "none", NoStr, o)
       ELSE /\ str' = str
            /\ StrDone("try_convert", "err", "TypeError", <<>>, h, i.wraps, 0,
                       <<>>, "none", NoStr, NoStr)
    /\ origin' = NoOrigin
    /\ UNCHANGED <<embedVars, classVars>>

\* RClass::from_value(val)
RClassFromValue(h) ==
    /\ Alive
    /\ Valid(h)
    /\ LET r == RClass_from_value(h) IN
       StrDone("RClass::from_value", IF r.some THEN "some" ELSE "none", "",
               <<>>, h, r.wraps, 0, <<>>, "none", str, NoStr)
    /\ UNCHANGED <<str, origin>>
    /\ UNCHANGED <<embedVars, classVars>>

\* RString::from_value(val)
RStringFromValue(h) ==
    /\ Alive
    /\ Valid(h)
    /\ LET r == RString_from_value(h) IN
       StrDone("RString::from_value", IF r.some THEN "some" ELSE "none", "",
               <<>>, h, r.wraps, 0, <<>>, "none", str,
               IF r.some THEN str ELSE NoStr)
    /\ UNCHANGED <<str, origin>>
    /\ UNCHANGED <<embedVars, classVars>>

\* RString::as_str(&self)
AsStr ==
    /\ Alive
    /\ str # NoStr
    /\ LET r == as_str_unconstrained(str) IN
       StrDone("as_str", r.result, r.err, r.text, "str", "none", 0, <<>>,
               "none", str, NoStr)
    /\ UNCHANGED <<str, origin>>
    /\ UNCHANGED <<embedVars, classVars>>

\* RString::to_string(self)
RStringToString ==
    /\ Alive
    /\ str # NoStr
    /\ LET r == to_string(str) IN
       StrDone("to_string", r.result, r.err, r.text, "str", "none", 0, <<>>,
               "none", str, NoStr)
    /\ UNCHANGED <<str, origin>>
    /\ UNCHANGED <<embedVars, classVars>>

\* RString::as_interned_str(self)
AsInternedStr ==
    /\ Alive
    /\ str # NoStr
    /\ LET r == as_interned_str(str) IN
       StrDone("as_interned_str", IF r.some THEN "some" ELSE "none", "", <<>>,
               "str", "none", 0, <<>>, "none", str, r.wraps)
    /\ UNCHANGED <<str, origin>>
    /\ UNCHANGED <<embedVars, classVars>>

\* RString::to_interned_str(self)
ToInternedStr ==
    /\ Alive
    /\ str # NoStr
    /\ \E found \in BOOLEAN :
         LET r == to_interned_str(str, found) IN
         /\ str' = r.self
         /\ StrDone("to_interned_str", IF r.same THEN "self" ELSE "other",
                    "", <<>>, "str", "none", 0, <<>>, "none", str, r.ret)
    /\ origin' = origin
    /\ UNCHANGED <<embedVars, classVars>>

\* RString::append(self, other)
RStringAppend(other) ==
    /\ Alive
    /\ str # NoStr
    /\ other \in Others
    /\ Len(RSTRING_GETMEM(str)) + Len(RSTRING_GETMEM(other)) <= MaxLen
    /\ LET r == append(str, other) IN
       /\ str' = r.str
       /\ StrDone("append", r.result, r.err, <<>>, "str", "none", 0,
                  RSTRING_GETMEM(other), rb_enc_get_index(other), str, NoStr)
    /\ origin' = IF str' = str THEN origin ELSE NoOrigin
    /\ UNCHANGED <<embedVars, classVars>>

\* RString::cat(self, buf). A raise that no frame of the embedded language
\* around the host's call catches ends the process.
RStringCat(buf) ==
    /\ Alive
    /\ str # NoStr
    /\ buf \in Bufs
    /\ Len(RSTRING_GETMEM(str)) + Len(buf) <= MaxLen
    /\ LET r == cat(str, buf) IN
       /\ str' = r.str
       /\ StrDone("cat", r.result, r.err, <<>>, "str", "none", 0, buf, "none",
                  str, NoStr)
       /\ IF r.result = "raise"
          THEN \E caught \in BOOLEAN : aborted' = ~caught
          ELSE aborted' = aborted
    /\ origin' = IF str' = str THEN origin ELSE NoOrigin
    /\ UNCHANGED <<INIT, pc, calls, outcome, panicStrategy, casLog, setupCalls,
                   setupResult, cleanupCalls, guardsReturned, guardsDropped>>
    /\ UNCHANGED classVars

\* The process after embed::init() on thread 1, with no string at hand.
InitString ==
    /\ InitClass
    /\ panicStrategy = "unwind"
    /\ TClass = [T \in HostTypes |-> "Object"]

NextString ==
    \/ \E s \in Texts : New(s)
    \/ \E n \in 0..MaxCap : BufNew(n)
    \/ \E n \in 0..MaxCap : WithCapacity(n)
    \/ \E h \in Handles, o \in RubyStrings \cup {NoStr} : TryConvert(h, o)
    \/ \E h \in Handles : RClassFromValue(h)
    \/ \E h \in Handles : RStringFromValue(h)
    \/ AsStr
    \/ RStringToString
    \/ AsInternedStr
    \/ ToInternedStr
    \/ \E other \in Others : RStringAppend(other)
    \/ \E buf \in Bufs : RStringCat(buf)

SpecString == InitString /\ [][NextString]_vars

(***************************************************************************)
(* Claims about embed.rs                                                   *)
(***************************************************************************)

\* C1: in any sequence of calls of init at most one returns a Cleanup guard:
\* the first compare_exchange flips INIT and wins, every later one loses and
\* the call panics with "Ruby already initialized"; ruby_setup is never
\* executed a second time.
C1_AtMostOneGuard ==
    /\ guardsReturned <= 1
    /\ setupCalls <= 1
    /\ INIT = (Len(casLog) > 0)
    /\ \A i \in 1..Len(casLog) : (casLog[i] = "won") <=> (i = 1)
    /\ Cardinality({t \in Threads :
           outcome[t] \notin {"none", "Ruby already initialized"}}) <= 1
    /\ \A t \in Threads : outcome[t] # "unexpected INIT state"

C1_Witness ==
    /\ guardsReturned = 1
    /\ Len(casLog) >= 2
    /\ \E t \in Threads : outcome[t] = "Ruby already initialized"

\* C2: ruby_cleanup runs at most once, never before ruby_setup has returned
\* 0, not while the returned guard is still held, and it has run exactly once
\* when the guard returned by init has been dropped.
C2_TeardownOnce ==
    /\ cleanupCalls <= 1
    /\ (cleanupCalls >= 1 => setupResult = "ok")
    /\ \A t \in Threads : pc[t] = "holding" => cleanupCalls = 0
    /\ (guardsDropped >= 1 => cleanupCalls = 1)

C2_Witness ==
    /\ guardsReturned = 1
    /\ guardsDropped = 1
    /\ cleanupCalls = 1

\* C3: when ruby_setup reports failure the call panics with "Failed to setup
\* Ruby", no Cleanup guard is ever returned and ruby_cleanup is not executed.
C3_SetupFailureIsFatal ==
    setupResult = "fail" =>
        /\ guardsReturned = 0
        /\ cleanupCalls = 0
        /\ \A t \in Threads : pc[t] = "idle"
        /\ \A t \in Threads :
             outcome[t] \in {"none", "Failed to setup Ruby",
                             "Ruby already initialized"}
        /\ \E t \in Threads : outcome[t] # "none"

C3_Witness ==
    /\ setupResult = "fail"
    /\ \E t \in Threads : outcome[t] = "Failed to setup Ruby"
    /\ cleanupCalls = 0

(***************************************************************************)
(* Claims about class.rs                                                   *)
(***************************************************************************)

Range(seq) == {seq[i] : i \in 1..Len(seq)}

\* C4: define_alloc_func::<T>(c) panics whenever c is not T::class(), and the
\* failed call leaves every allocator slot, c's included, as it was.
C4_MismatchPanicsBeforeInstall ==
    (last.op = "define_alloc_func" /\ last.self # TClass[last.T]) =>
        /\ last.result = "panic"
        /\ last.changed = {}
        /\ rb_get_alloc_func(allocSlot, superOf, last.self) = last.preAlloc

C4_Witness ==
    /\ last.op = "define_alloc_func"
    /\ last.self # TClass[last.T]
    /\ last.result = "panic"
    /\ allocSlot[last.self] # last.T

\* C5: undef_default_alloc_func(c) changes an allocator only if c's current
\* allocator is the generic default; when c has a host-defined allocator or
\* none, no allocator slot changes.
C5_UndefDefaultOnlyClearsDefault ==
    (last.op = "undef_default_alloc_func" /\ last.preAlloc # DefaultAlloc) =>
        /\ last.changed = {}
        /\ rb_get_alloc_func(allocSlot, superOf, last.self) = last.preAlloc

\* C6: the closure of call_once runs at most once; the static holds what that
\* one run stored, whatever happens to Object's allocator afterwards; no
\* caller compares before the run has completed, and all callers compare
\* against that one value.
C6_DefaultAllocatorMemoizedOnce ==
    /\ initRuns <= 1
    /\ (once = "complete") = (initRuns = 1)
    /\ (once = "complete" => RB_CLASS_ALLOCATE_INSTANCE = captured)
    /\ usedVals \subseteq {captured}
    /\ (once # "complete" => usedVals = {})
    /\ \A t \in Callers : cpc[t] = "compare" => once = "complete"

C6_Witness ==
    /\ initRuns = 1
    /\ usedVals = {captured}
    /\ rb_get_alloc_func(allocSlot, superOf, "Object") # captured
    /\ \E t1 \in Callers, t2 \in Callers :
         t1 # t2 /\ cpc[t1] = "compare" /\ cpc[t2] = "compare"

\* C7: new_instance(c, args) first calls c's current allocator and only then
\* initialize; it is Err when c has no allocator or the allocator raises
\* (initialize is then not called) or when initialize raises, and otherwise
\* Ok with an initialized instance of c.
C7_NewInstanceTwoPhase ==
    last.op = "new_instance" =>
        /\ last.result \in {"ok", "err"}
        /\ (last.preAlloc = "NULL" =>
               /\ last.result = "err"
               /\ last.msg = "allocator undefined"
               /\ last.trace = <<>>)
        /\ (last.preAlloc # "NULL" =>
               /\ Len(last.trace) >= 1
               /\ last.trace[1] = last.preAlloc)
        /\ ("initialize" \in Range(last.trace) =>
               last.trace = <<last.preAlloc, "initialize">>)
        /\ (last.msg \in {"allocator undefined", "raised in allocate"} =>
               /\ last.result = "err"
               /\ "initialize" \notin Range(last.trace)
               /\ ~last.allocated)
        /\ (last.msg = "raised in initialize" => last.result = "err")
        /\ (last.result = "err" => last.retObj = NoObj)
        /\ (last.result = "ok" =>
               /\ last.trace = <<last.preAlloc, "initialize">>
               /\ last.retObj.class = last.self
               /\ last.retObj.initialized)

C7_Witness ==
    /\ last.op = "new_instance"
    /\ last.result = "ok"
    /\ last.preAlloc \in HostTypes
    /\ last.trace = <<last.preAlloc, "initialize">>

\* C8: obj_alloc(c) calls c's current allocator and nothing else: initialize
\* is never invoked, whatever c's allocator is.
C8_ObjAllocSkipsInitialize ==
    last.op = "obj_alloc" =>
        /\ "initialize" \notin Range(last.trace)
        /\ ~last.retObj.initialized
        /\ (last.preAlloc = "NULL" =>
               /\ last.result = "err"
               /\ ~last.allocated)
        /\ (last.result = "ok" =>
               /\ last.preAlloc # "NULL"
               /\ last.trace = <<last.preAlloc>>
               /\ last.retObj.class = last.self)

C8_Witness ==
    /\ last.op = "obj_alloc"
    /\ last.result = "ok"
    /\ last.preAlloc \in HostTypes
    /\ last.trace = <<last.preAlloc>>

\* C9: superclass(c) is Err when c has no superclass; when it is Ok, c has a
\* parent and the returned value is that parent, a class object.
C9_SuperclassFailsAtRoot ==
    last.op = "superclass" =>
        /\ (superOf[last.self] = "nil" => last.result = "err")
        /\ (last.result = "ok" =>
               /\ superOf[last.self] # "nil"
               /\ last.retClass = superOf[last.self]
               /\ last.retClass \in classes)

\* C10: when undef_default_alloc_func(c) has just run on a class c whose
\* allocator was the generic default, new_instance(c, ()) is Err with
\* "allocator undefined for c" and allocates nothing.
C10_NewInstanceFailsAfterUndefDefault ==
    [][(/\ last.op = "undef_default_alloc_func"
        /\ last.preAlloc = DefaultAlloc
        /\ last'.op = "new_instance"
        /\ last'.self = last.self)
       => (/\ last'.result = "err"
           /\ last'.msg = "allocator undefined"
           /\ ~last'.allocated)]_vars

\* k is the class c or a descendant of c.
RECURSIVE InheritsFrom(_, _, _)
InheritsFrom(sup, k, c) ==
    IF k = "nil" THEN FALSE
    ELSE IF k = c THEN TRUE
    ELSE InheritsFrom(sup, sup[k], c)

\* C11: when a subclass of a class c that has the allocator of
\* define_alloc_func::<T> is instantiated with new_instance, the allocator is
\* called with the subclass: the instance is of the subclass and not of c, it
\* wraps T::default() from the allocator, which runs before initialize, and
\* initialize then runs on that instance.
C11_SubclassInstanceKeepsItsClass ==
    (/\ last.op = "new_instance"
     /\ last.result = "ok"
     /\ allocSlot[last.self] = "NULL"
     /\ \E c \in classes, T \in HostTypes :
          /\ c # last.self
          /\ InheritsFrom(superOf, last.self, c)
          /\ allocSlot[c] = T
          /\ last.preAlloc = T)
    => /\ last.retObj.class = last.self
       /\ last.retObj.class # TClass[last.preAlloc]
       /\ last.retObj.wrapped = last.preAlloc
       /\ last.trace = <<last.preAlloc, "initialize">>
       /\ last.retObj.initialized

C11_Witness ==
    /\ last.op = "new_instance"
    /\ last.result = "ok"
    /\ last.self = "K1"
    /\ superOf["K1"] = "Object"
    /\ allocSlot["K1"] = "NULL"
    /\ allocSlot["Object"] = "T"
    /\ TClass["T"] = "Object"
    /\ last.retObj = [class |-> "K1", wrapped |-> "T", initialized |-> TRUE]

AllocOps == {"define_alloc_func", "undef_alloc_func",
             "undef_default_alloc_func"}

\* C12: a class has one allocator slot and its allocator is the generic one
\* as long as no slot on its superclass chain was redefined; a step changes
\* the slot of an existing class k only if it is define_alloc_func,
\* undef_alloc_func or undef_default_alloc_func called on k itself, and the
\* allocator in force for k only if k is the class of the call or one of its
\* descendants.
C12_AllocatorChangeIsLocal ==
    [][/\ \A k \in classes :
            allocSlot'[k] # allocSlot[k] =>
                (last'.op \in AllocOps /\ k = last'.self)
       /\ \A k \in classes :
            rb_get_alloc_func(allocSlot', superOf', k)
                # rb_get_alloc_func(allocSlot, superOf, k) =>
                (/\ last'.op \in AllocOps
                 /\ InheritsFrom(superOf, k, last'.self))
       /\ \A k \in classes' :
            (\A a \in classes' :
                 InheritsFrom(superOf', k, a) =>
                     allocSlot'[a] \in {"NULL", DefaultAlloc})
            => rb_get_alloc_func(allocSlot', superOf', k) = DefaultAlloc
      ]_vars

C12_Witness ==
    /\ last.op = "define_alloc_func"
    /\ last.result = "ok"
    /\ last.self = "Object"
    /\ last.changed = {"Object"}
    /\ "K1" \in classes
    /\ superOf["K1"] = "BasicObject"
    /\ rb_get_alloc_func(allocSlot, superOf, "K1") = DefaultAlloc
    /\ rb_get_alloc_func(allocSlot, superOf, "Object") = "T"

(***************************************************************************)
(* Claims about r_string.rs                                                *)
(***************************************************************************)

\* C13: RClass::from_value(h) is Some exactly when the type tag of h is the
\* class tag, which is exactly when h is a class, and RString::from_value(h)
\* is Some exactly when the tag is the string tag, which is exactly when h is
\* the string; a Some wraps h itself.
C13_FromValueMatchesTag ==
    /\ (slast.op = "RClass::from_value" =>
           /\ (slast.result = "some") = (rb_type(slast.h) = "RUBY_T_CLASS")
           /\ (slast.result = "some") = (slast.h \in classes)
           /\ slast.result \in {"some", "none"}
           /\ (slast.result = "some" => slast.wraps = slast.h))
    /\ (slast.op = "RString::from_value" =>
           /\ (slast.result = "some") = (rb_type(slast.h) = "RUBY_T_STRING")
           /\ (slast.result = "some") = (slast.h = "str")
           /\ slast.result \in {"some", "none"}
           /\ (slast.result = "some" =>
                  (slast.wraps = slast.h /\ slast.ret = str)))

C13_Witness ==
    /\ slast.op = "RString::from_value"
    /\ slast.h = "str"
    /\ slast.result = "some"
    /\ slast.wraps = "str"
    /\ str # NoStr

\* C14: a string object for which as_interned_str is Some is interned after
\* every later step too, whatever the operation.
C14_InterningIsOneWay ==
    [][(str # NoStr /\ as_interned_str(str).some)
       => (is_interned(str') /\ as_interned_str(str').some)]_vars

C14_Witness ==
    /\ slast.op = "append"
    /\ is_interned(slast.pre)
    /\ slast.result = "err"
    /\ as_interned_str(str).some

\* C15, as stated: every append and every cat on an interned string fails,
\* and leaves the bytes seen through as_slice as they were.
C15_InternedStringRejectsMutation ==
    (slast.op \in {"append", "cat"} /\ is_interned(slast.pre)) =>
        /\ slast.result \in {"err", "raise"}
        /\ as_slice_unconstrained(str) = as_slice_unconstrained(slast.pre)

\* C15, amended: an append on an interned string is Err and a cat of a
\* buffer that is not empty raises FrozenError; a cat of the empty buffer
\* returns; in each case the string object, and with it the bytes seen
\* through as_slice, is as it was.
C15_InternedBytesNeverChange ==
    (slast.op \in {"append", "cat"} /\ is_interned(slast.pre)) =>
        /\ str = slast.pre
        /\ as_slice_unconstrained(str) = as_slice_unconstrained(slast.pre)
        /\ (slast.op = "append" =>
               /\ slast.result = "err"
               /\ slast.err \in {"FrozenError",
                                 "Encoding::CompatibilityError"})
        /\ (slast.op = "cat" /\ slast.arg # <<>> =>
               /\ slast.result = "raise"
               /\ slast.err = "FrozenError")
        /\ (slast.op = "cat" /\ slast.arg = <<>> => slast.result = "ok")

C15_Witness ==
    /\ slast.op = "cat"
    /\ is_interned(slast.pre)
    /\ slast.arg # <<>>
    /\ slast.result = "raise"
    /\ as_slice_unconstrained(str) # <<>>

\* Some byte of the sequence is not ASCII.
NonAscii(bytes) == \E i \in 1..Len(bytes) : bytes[i] >= 128

\* Strings a and b have different encodings and each holds a byte that is
\* not ASCII: the embedded language calls their encodings incompatible.
Incompatible(a, b) ==
    /\ a.enc # b.enc
    /\ NonAscii(as_slice_unconstrained(a))
    /\ NonAscii(as_slice_unconstrained(b))

\* Encoding::CompatibilityError is a subclass of EncodingError.
IsEncodingError(exc) ==
    exc \in {"EncodingError", "Encoding::CompatibilityError"}

\* C16, as stated: with incompatible encodings of a and b, append(a, b) is
\* Err with an EncodingError and a's bytes stay, and cat(a, bytes of b)
\* succeeds and a holds its old bytes followed by those of b under its old
\* encoding.
C16_IncompatibleAppendFailsCatSucceeds ==
    /\ (/\ slast.op = "append"
         /\ Incompatible(slast.pre, rb_enc_str_new(slast.arg, slast.argEnc)))
        => /\ slast.result = "err"
           /\ IsEncodingError(slast.err)
           /\ as_slice_unconstrained(str) = as_slice_unconstrained(slast.pre)
    /\ (/\ slast.op = "cat"
         /\ \E e \in Encodings :
              Incompatible(slast.pre, rb_enc_str_new(slast.arg, e)))
        => /\ slast.result = "ok"
           /\ as_slice_unconstrained(str)
                  = as_slice_unconstrained(slast.pre) \o slast.arg
           /\ rb_enc_get_index(str) = rb_enc_get_index(slast.pre)

\* C16, amended: the same, where the cat is on a string a that is not
\* frozen; on a frozen a the cat raises FrozenError and a stays as it was.
C16_IncompatibleAppendFailsCatOnUnfrozenSucceeds ==
    /\ (/\ slast.op = "append"
         /\ Incompatible(slast.pre, rb_enc_str_new(slast.arg, slast.argEnc)))
        => /\ slast.result = "err"
           /\ IsEncodingError(slast.err)
           /\ as_slice_unconstrained(str) = as_slice_unconstrained(slast.pre)
    /\ (/\ slast.op = "cat"
         /\ \E e \in Encodings :
              Incompatible(slast.pre, rb_enc_str_new(slast.arg, e)))
        => IF slast.pre.frozen
           THEN /\ slast.result = "raise"
                /\ slast.err = "FrozenError"
                /\ str = slast.pre
           ELSE /\ slast.result = "ok"
                /\ as_slice_unconstrained(str)
                       = as_slice_unconstrained(slast.pre) \o slast.arg
                /\ rb_enc_get_index(str) = rb_enc_get_index(slast.pre)

C16_Witness ==
    /\ slast.op = "cat"
    /\ ~slast.pre.frozen
    /\ rb_enc_get_index(slast.pre) = rb_utf8_encindex
    /\ NonAscii(as_slice_unconstrained(slast.pre))
    /\ slast.arg = <<169>>
    /\ slast.result = "ok"
    /\ rb_enc_get_index(str) = rb_utf8_encindex

\* C17: to_string on the unmodified result of RString::new(s) is Ok(s), for
\* every text s: the empty one, those that fit the inline buffer and those
\* that are heap-backed.
C17_NewToStringRoundTrip ==
    (slast.op = "to_string" /\ origin.made) =>
        /\ slast.result = "ok"
        /\ slast.text = origin.text

C17_Witness ==
    /\ slast.op = "to_string"
    /\ origin.made
    /\ Len(origin.text) = MaxTextLen
    /\ 233 \in Range(origin.text)
    /\ str.noembed
    /\ slast.result = "ok"
    /\ slast.text = origin.text

\* C18: for every capacity n, 0 included, with_capacity(n) gives a string of
\* length 0 for which is_utf8_compatible_encoding is true, and buf_new(n) a
\* string of length 0 tagged binary, for which it is false.
C18_CapacityConstructorsAreEmpty ==
    /\ (slast.op = "with_capacity" =>
           /\ slast.ret = str
           /\ Len(as_slice_unconstrained(str)) = 0
           /\ is_utf8_compatible_encoding(str))
    /\ (slast.op = "buf_new" =>
           /\ slast.ret = str
           /\ Len(as_slice_unconstrained(str)) = 0
           /\ rb_enc_get_index(str) = rb_ascii8bit_encindex
           /\ ~is_utf8_compatible_encoding(str))

C18_Witness ==
    /\ slast.op = "with_capacity"
    /\ slast.n = 0
    /\ Len(as_slice_unconstrained(str)) = 0
    /\ is_utf8_compatible_encoding(str)

\* The byte sequences that are the UTF-8 form of some text.
ValidUtf8(bytes) ==
    \E t \in UNION {[1..n -> Chars] : n \in 0..Len(bytes)} :
        str_as_bytes(t) = bytes

\* C19: as_str is Err with an EncodingError when the encoding of the string
\* is neither UTF-8 nor US-ASCII, and also when it is one of them and the
\* bytes are not valid UTF-8; it is Ok only for a compatible encoding and
\* valid bytes, and the text then has the bytes of as_slice.
C19_AsStrChecksTagAndBytes ==
    slast.op = "as_str" =>
        LET compatible == rb_enc_get_index(slast.pre)
                              \in {rb_utf8_encindex, rb_usascii_encindex}
            bytes == as_slice_unconstrained(slast.pre) IN
        /\ slast.result \in {"ok", "err"}
        /\ (~compatible =>
               (slast.result = "err" /\ slast.err = "EncodingError"))
        /\ (compatible /\ ~ValidUtf8(bytes) =>
               (slast.result = "err" /\ slast.err = "EncodingError"))
        /\ (slast.result = "ok" =>
               /\ compatible
               /\ ValidUtf8(bytes)
               /\ str_as_bytes(slast.text) = bytes)
        /\ (compatible /\ ValidUtf8(bytes) => slast.result = "ok")
        /\ str = slast.pre

C19_Witness ==
    /\ slast.op = "as_str"
    /\ is_utf8_compatible_encoding(slast.pre)
    /\ ~ValidUtf8(as_slice_unconstrained(slast.pre))
    /\ slast.result = "err"
    /\ slast.err = "EncodingError"

\* C21: a string is in exactly one storage mode, told by the flag NOEMBED:
\* heap-backed, with nothing in the inline buffer, or embedded, with no heap
\* buffer and a length that fits the inline buffer. In either mode as_slice
\* gives the bytes the string holds now: those it was made from, and after
\* each successful cat or append the bytes before the call followed by the
\* bytes added, also when the call turned an embedded string heap-backed.
C21_AsSliceFollowsStorageMode ==
    str # NoStr =>
        /\ IF str.noembed
           THEN /\ str.embed_len = 0
                /\ str.ary = <<>>
                /\ str.heap_len = Len(str.heap_ptr)
                /\ as_slice_unconstrained(str) = str.heap_ptr
           ELSE /\ str.heap_len = 0
                /\ str.heap_ptr = <<>>
                /\ str.embed_len = Len(str.ary)
                /\ str.embed_len <= RSTRING_EMBED_LEN_MAX
                /\ as_slice_unconstrained(str) = str.ary
        /\ (slast.op = "new" =>
               as_slice_unconstrained(str) = str_as_bytes(slast.text))
        /\ (slast.op \in {"cat", "append"} /\ slast.result = "ok" =>
               /\ as_slice_unconstrained(str)
                      = as_slice_unconstrained(slast.pre) \o slast.arg
               /\ Len(as_slice_unconstrained(str))
                      = Len(as_slice_unconstrained(slast.pre)) + Len(slast.arg)
               /\ (slast.pre.noembed => str.noembed)
               /\ (Len(as_slice_unconstrained(str)) > RSTRING_EMBED_LEN_MAX
                      => str.noembed))
        /\ (slast.op \in {"cat", "append"} /\ slast.result # "ok" =>
               as_slice_unconstrained(str) = as_slice_unconstrained(slast.pre))

C21_Witness ==
    /\ slast.op = "cat"
    /\ slast.result = "ok"
    /\ ~slast.pre.noembed
    /\ slast.pre.embed_len > 0
    /\ str.noembed
    /\ as_slice_unconstrained(str)
           = as_slice_unconstrained(slast.pre) \o slast.arg

\* C23: every FString the API hands out wraps an interned string:
\* as_interned_str(s) is Some exactly when is_interned(s), and then wraps s
\* itself, and the string wrapped by the result of to_interned_str(s) is
\* interned.
C23_FStringWrapsInterned ==
    /\ (slast.op = "as_interned_str" =>
           /\ (slast.result = "some") = is_interned(slast.pre)
           /\ (slast.result = "some" =>
                  (slast.ret = slast.pre /\ is_interned(slast.ret))))
    /\ (slast.op = "to_interned_str" => is_interned(slast.ret))

(***************************************************************************)
(* Claims about concurrent calls of embed::init                            *)
(***************************************************************************)

\* C20: of the calls of init that threads make concurrently, exactly one
\* wins the compare_exchange; only its thread gets past it, so at most one
\* thread is inside init_options or holds its guard, ruby_setup is executed
\* by the winner only, at most once and never while another thread is about
\* to execute it, and each other call has panicked with "Ruby already
\* initialized".
C20_OneWinnerAmongConcurrentCalls ==
    LET won == {i \in 1..Len(casLog) : casLog[i] = "won"}
        lost == {i \in 1..Len(casLog) : casLog[i] = "already"}
        inside == {t \in Threads : pc[t] # "idle"} IN
    /\ Cardinality(won) = (IF Len(casLog) = 0 THEN 0 ELSE 1)
    /\ Cardinality(won) + Cardinality(lost) = Len(casLog)
    /\ Cardinality(inside) <= Cardinality(won)
    /\ Cardinality({t \in Threads : pc[t] = "setup"}) + setupCalls
           <= Cardinality(won)
    /\ \A t \in Threads :
           (calls[t] > 0 /\ pc[t] = "idle") =>
               outcome[t] \in {"Ruby already initialized",
                               "Failed to setup Ruby",
                               "Ruby init code not executable",
                               "Ruby init code failed", "guard"}
    /\ Cardinality({t \in Threads :
                        /\ calls[t] > 0
                        /\ outcome[t] # "Ruby already initialized"}) <= 1

C20_Witness ==
    /\ panicStrategy = "unwind"
    /\ setupCalls = 1
    /\ \E t1 \in Threads :
         /\ pc[t1] = "options"
         /\ \A t2 \in Threads \ {t1} :
              /\ calls[t2] = 1
              /\ outcome[t2] = "Ruby already initialized"

\* A start that failed: a call of init panicked after it had won.
StartFailed ==
    \E t \in Threads :
        outcome[t] \in {"Failed to setup Ruby",
                        "Ruby init code not executable",
                        "Ruby init code failed"}

\* C22: INIT, once set, is never cleared. Every call of init made while it
\* is set loses the compare_exchange and panics with "Ruby already
\* initialized" without touching the runtime; so after a start that failed,
\* and after the guard was dropped or ruby_cleanup has run, ruby_setup is not
\* executed again.
C22_InitIsNeverReset ==
    [][/\ (INIT => INIT')
       /\ (StartFailed \/ guardsDropped >= 1 \/ cleanupCalls >= 1) =>
              /\ INIT
              /\ INIT'
              /\ setupCalls' = setupCalls
              /\ guardsReturned' = guardsReturned
       /\ \A t \in Threads :
              (INIT /\ calls'[t] = calls[t] + 1) =>
                  /\ casLog' = Append(casLog, "already")
                  /\ outcome'[t] = "Ruby already initialized"
                  /\ pc'[t] = "idle"
                  /\ setupCalls' = setupCalls
                  /\ cleanupCalls' = cleanupCalls
      ]_vars

C22_Witness ==
    /\ panicStrategy = "unwind"
    /\ guardsReturned = 1
    /\ guardsDropped = 1
    /\ cleanupCalls = 1
    /\ setupCalls = 1
    /\ INIT
    /\ \E t \in Threads :
         /\ calls[t] = 2
         /\ pc[t] = "idle"
         /\ outcome[t] = "Ruby already initialized"
         /\ \A u \in Threads \ {t} : calls[u] = 0

====
